---- MODULE Spec2Model ----
(***************************************************************************)
(* Model of VPNClientGUI.py: a Tk front-end that drives the WireGuard      *)
(* helper script VPN.sh.  Strings are sequences of one-character strings.  *)
(* The Tk main loop runs one handler at a time; worker threads started by  *)
(* the handlers run run_bash_command concurrently with it.                 *)
(***************************************************************************)
EXTENDS Bags, FiniteSets, Integers, Sequences, TLC

VARIABLES
    pc,             \* "startup": create_main_window before its update_status() call; "mainloop"
    status_label,   \* text of status_label: [kind, iface]
    disconnect_button, \* state of disconnect_button: "normal" / "disabled"
    timers,         \* number of pending root.after(..., update_status) callbacks
    threads,        \* bag of argument vectors of the run_bash_command calls running in worker threads
    connect_window, \* the modal Toplevel of connect_vpn_gui: [open, interfaces, selected]
    confirm,        \* the askyesno dialog of disconnect_vpn_gui: [open, active_iface]
    hung,           \* bag of the running invocations whose script will never exit
    hActive,        \* helper ground truth: name of the active tunnel, <<>> when none
    hConfigs,       \* helper ground truth: configured tunnel names, in directory order
    scriptState,    \* VPN.sh on disk: "ok", "missing" (FileNotFoundError), "noexec" (PermissionError)
    ev,             \* history: the handler or step that ran last, with what it showed
    pureIn,         \* input of the pure-function specification
    pureOut         \* output of the pure-function specification

vars == <<pc, status_label, disconnect_button, timers, threads, connect_window, confirm,
          hung, hActive, hConfigs, scriptState, ev, pureIn, pureOut>>

----------------------------------------------------------------------------
(* Bounds *)

MaxThreads == 2     \* worker threads alive at once
MaxTimers == 4      \* pending update_status timers
MaxNameLen == 3     \* length of the names the pure-function specification enumerates
MaxOutLen == 2      \* length of the stdout and stderr texts given to run_bash_command
MaxListLen == 4     \* length of the list_interfaces outputs given to get_vpn_interface_names

----------------------------------------------------------------------------
(* Strings *)

Alphabet == {"a", "b", "/", "."}

Whitespace == {" ", "\n"}

\* Python's None, distinct from every string
None == <<"None">>

\* a test against None in place of truthiness
Truthy_IsNotNone(x) == x # None

\* truthiness of an Optional[str]
Truthy(x) == x # None /\ x # <<>>

Range(s) == {s[i] : i \in 1..Len(s)}

RECURSIVE LStrip(_)
LStrip(s) == IF s # <<>> /\ Head(s) \in Whitespace THEN LStrip(Tail(s)) ELSE s

RECURSIVE RStrip(_)
RStrip(s) == IF s # <<>> /\ s[Len(s)] \in Whitespace THEN RStrip(SubSeq(s, 1, Len(s) - 1)) ELSE s

\* the output is returned as the script wrote it
Strip_Raw(s) == s

\* str.strip()
Strip(s) == RStrip(LStrip(s))

\* sub in s
Contains(s, sub) == \E i \in 1..(Len(s) - Len(sub) + 1) : SubSeq(s, i, i + Len(sub) - 1) = sub

\* ord() of the characters in use
Ord(c) == CASE c = "\n" -> 10
            [] c = " " -> 32
            [] c = "." -> 46
            [] c = "/" -> 47
            [] c = "a" -> 97
            [] c = "b" -> 98
            [] c = "c" -> 99
            [] c = "e" -> 101
            [] c = "t" -> 116
            [] OTHER -> 0

\* s < t for str
RECURSIVE StrLess(_, _)
StrLess(s, t) == IF t = <<>> THEN FALSE
                 ELSE IF s = <<>> THEN TRUE
                 ELSE IF Head(s) # Head(t) THEN Ord(Head(s)) < Ord(Head(t))
                 ELSE StrLess(Tail(s), Tail(t))

\* s.split(sep) for a one-character sep
RECURSIVE Split(_, _)
Split(s, sep) ==
    IF \A i \in 1..Len(s) : s[i] # sep THEN <<s>>
    ELSE LET k == CHOOSE i \in 1..Len(s) : s[i] = sep /\ \A j \in 1..(i - 1) : s[j] # sep
         IN <<SubSeq(s, 1, k - 1)>> \o Split(SubSeq(s, k + 1, Len(s)), sep)

RECURSIVE Insert(_, _)
Insert(x, l) == IF l = <<>> THEN <<x>>
                ELSE IF StrLess(x, Head(l)) THEN <<x>> \o l
                ELSE <<Head(l)>> \o Insert(x, Tail(l))

\* the list is returned in the order of the output
Sorted_Unsorted(l) == l

\* sorted(l) for a list of str (stable)
RECURSIVE Sorted(_)
Sorted(l) == IF l = <<>> THEN <<>> ELSE Insert(l[Len(l)], Sorted(SubSeq(l, 1, Len(l) - 1)))

\* the strings over an alphabet, up to a length
RECURSIVE SeqsOver(_, _)
SeqsOver(alphabet, n) ==
    IF n = 0 THEN {<<>>}
    ELSE LET S == SeqsOver(alphabet, n - 1)
         IN S \cup {Append(x, c) : x \in {y \in S : Len(y) = n - 1}, c \in alphabet}

RECURSIVE SeqsUpTo(_)
SeqsUpTo(n) == IF n = 0 THEN {<<>>}
               ELSE LET S == SeqsUpTo(n - 1)
                    IN S \cup {Append(s, c) : s \in {x \in S : Len(x) = n - 1}, c \in Alphabet}

----------------------------------------------------------------------------
(* The helper VPN.sh, at its process boundary *)

A == <<"a">>
B == <<"b">>

\* the files the file dialog can return; <<>> when the dialog is cancelled
SourceFiles == {<<>>, <<"/", "a">>}

RECURSIVE JoinLines(_)
JoinLines(l) == IF l = <<>> THEN <<>> ELSE Head(l) \o <<"\n">> \o JoinLines(Tail(l))

HelperOk(out, act, cfg) ==
    [code |-> 0, stdout |-> out, stderr |-> <<>>, active |-> act, configs |-> cfg]

HelperFail ==
    [code |-> 1, stdout |-> <<>>, stderr |-> <<"e", "\n">>, active |-> hActive, configs |-> hConfigs]

\* the runs of VPN.sh the current ground truth allows, each with the ground truth it leaves
HelperOutcomes(command_args) ==
    LET op == command_args[1] IN
    CASE op = "list_interfaces" -> {HelperOk(JoinLines(hConfigs), hActive, hConfigs)}
      [] op = "get_active" -> {HelperOk(hActive \o <<"\n">>, hActive, hConfigs)}
      [] op = "connect" ->
            {HelperFail} \cup
            (IF command_args[2] \in Range(hConfigs) /\ hActive = <<>>
             THEN {HelperOk(<<"o", "k", "\n">>, command_args[2], hConfigs)} ELSE {})
      [] op = "disconnect" ->
            {HelperFail} \cup
            (IF hActive # <<>> /\ command_args[2] = hActive
             THEN {HelperOk(<<"o", "k", "\n">>, <<>>, hConfigs)} ELSE {})
      [] op = "import" ->
            {HelperFail} \cup
            (IF command_args[3] \notin Range(hConfigs)
             THEN {HelperOk(<<"o", "k", "\n">>, hActive, Append(hConfigs, command_args[3]))} ELSE {})

\* what subprocess.run(command, capture_output=True, text=True, check=True) can do
SubprocessRun(command_args) ==
    IF scriptState = "missing"
    THEN {[kind |-> "FileNotFoundError", proc |-> HelperFail]}
    ELSE IF scriptState = "noexec"
    THEN {[kind |-> "Exception", proc |-> HelperFail]}
    ELSE {[kind |-> IF o.code = 0 THEN "returned" ELSE "CalledProcessError", proc |-> o] :
             o \in HelperOutcomes(command_args)}

----------------------------------------------------------------------------
(* run_bash_command and the registry readers *)

\* every popup is shown with showinfo
Popup_Info(kind, title, text) == [kind |-> "showinfo", title |-> title, text |-> text]

Popup(kind, title, text) == [kind |-> kind, title |-> title, text |-> text]

\* no fallback to the second text
Or_First(a, b) == a

\* a or b for str
Or(a, b) == IF a # <<>> THEN a ELSE b

\* run_bash_command on one run r of the script: the value returned and the popups shown
run_bash_command(command_args, show_success_popup, r) ==
    CASE r.kind = "returned" ->
            [ret |-> Strip(r.proc.stdout),
             popups |-> IF show_success_popup /\ command_args[1] \in {"connect", "disconnect", "import"}
                        THEN <<Popup("showinfo", "Success",
                                     Or(Strip(r.proc.stdout), <<"completed successfully">>))>>
                        ELSE <<>>]
      [] r.kind = "FileNotFoundError" ->
            [ret |-> None, popups |-> <<Popup("showerror", "Error", <<"Script not found">>)>>]
      [] r.kind = "CalledProcessError" ->
            [ret |-> None,
             popups |-> <<Popup("showerror", "Operation Failed",
                                Or(Strip(r.proc.stderr), Or(Strip(r.proc.stdout), Strip(r.proc.stdout))))>>]
      [] OTHER ->
            [ret |-> None, popups |-> <<Popup("showerror", "Unexpected Error", <<"unexpected error">>)>>]

\* get_vpn_interface_names on one run r of list_interfaces
get_vpn_interface_names(r) ==
    LET res == run_bash_command(<<"list_interfaces">>, FALSE, r)
        output == res.ret
        lines == IF Truthy(output) THEN Split(output, "\n") ELSE <<>>
        stripped == [i \in 1..Len(lines) |-> Strip(lines[i])]
    IN [ret |-> IF Truthy(output) THEN Sorted(SelectSeq(stripped, LAMBDA l : l # <<>>)) ELSE <<>>,
        popups |-> res.popups]

\* get_active_vpn_interface on one run r of get_active
get_active_vpn_interface(r) == run_bash_command(<<"get_active">>, FALSE, r)

----------------------------------------------------------------------------
(* The GUI *)

Checking == [kind |-> "Checking", iface |-> <<>>]
Disconnected == [kind |-> "Disconnected", iface |-> <<>>]
Connected(x) == [kind |-> "Connected", iface |-> x]

NoWindow == [open |-> FALSE, interfaces |-> <<>>, selected |-> <<>>]

NoConfirm == [open |-> FALSE, active_iface |-> <<>>]

\* the names the user can type in the import dialog; None when the dialog is cancelled
ImportNames == {None, <<>>, A, B, <<"a", "/", "b">>, <<".", ".">>, <<"a", ".", ".", "b">>,
                <<".", ".", "/", "e", "t", "c">>}

\* ok: the handler started a helper invocation; for a finished invocation, it succeeded
Event(kind, name, ok, popups) ==
    [kind |-> kind, name |-> name, ok |-> ok, popups |-> popups]

\* only the path separator is checked
InvalidName_SlashOnly(config_name) == Contains(config_name, <<"/">>)

\* "/" in config_name or ".." in config_name
InvalidName(config_name) == Contains(config_name, <<"/">>) \/ Contains(config_name, <<".", ".">>)

\* the emptiness check is left out
ImportNameAccepted_NoEmptyCheck(config_name) == ~Contains(config_name, <<"/">>) /\ ~Contains(config_name, <<".", ".">>)

\* the checks of import_config_gui on the name: TRUE when the import is started
ImportNameAccepted(config_name) == Truthy(config_name) /\ ~InvalidName(config_name)

Init ==
    /\ pc = "startup"
    /\ status_label = Checking
    /\ disconnect_button = "disabled"
    /\ timers = 0
    /\ threads = EmptyBag
    /\ connect_window = NoWindow
    /\ confirm = NoConfirm
    /\ hung = EmptyBag
    /\ hConfigs \in {<<>>, <<B, A>>}
    /\ hActive \in {<<>>} \cup Range(hConfigs)
    /\ scriptState = "ok"
    /\ ev = Event("init", <<>>, FALSE, <<>>)
    /\ pureIn = <<>>
    /\ pureOut = "none"

\* status_label.config(text=...) of update_status
StatusText(active_iface) == IF Truthy(active_iface) THEN Connected(active_iface) ELSE Disconnected

\* the button is left enabled when no tunnel is active
ButtonState_NeverDisabled(active_iface) == "normal"

\* disconnect_button.config(state=...) of update_status
ButtonState(active_iface) == IF Truthy(active_iface) THEN "normal" ELSE "disabled"

\* update_status does not schedule its next run
AfterUpdateStatus_NoRearm(n, from_timer) == IF from_timer THEN n - 1 ELSE n

\* the pending timers after update_status: a run from a timer consumed that timer,
\* and root.after(5000, update_status) adds one
AfterUpdateStatus(n, from_timer) == IF from_timer THEN (n - 1) + 1 ELSE n + 1

\* update_status: the call of create_main_window, or a timer firing
UpdateStatus ==
    /\ pc = "startup" \/ timers > 0
    /\ \E r \in SubprocessRun(<<"get_active">>) :
          LET res == get_active_vpn_interface(r)
              active_iface == res.ret
          IN /\ status_label' = StatusText(active_iface)
             /\ disconnect_button' = ButtonState(active_iface)
             /\ ev' = Event("update_status", active_iface, FALSE, res.popups)
    /\ timers' = AfterUpdateStatus(timers, pc = "mainloop")
    /\ pc' = "mainloop"
    /\ UNCHANGED <<threads, connect_window, hActive, hConfigs, scriptState, confirm, hung, pureIn, pureOut>>

\* connect_vpn_gui up to wait_window: the Connect button of the main window
ConnectClick ==
    /\ pc = "mainloop"
    /\ ~connect_window.open
    /\ ~confirm.open
    /\ \E r \in SubprocessRun(<<"list_interfaces">>) :
          LET res == get_vpn_interface_names(r)
              interfaces == res.ret
          IN IF interfaces = <<>>
             THEN /\ connect_window' = connect_window
                  /\ ev' = Event("connect_vpn_gui", <<>>, FALSE,
                                 res.popups \o <<Popup("showinfo", "Connect VPN", <<"no configurations">>)>>)
             ELSE /\ connect_window' = [open |-> TRUE, interfaces |-> interfaces,
                                        selected |-> interfaces[1]]
                  /\ ev' = Event("connect_vpn_gui", <<>>, FALSE, res.popups)
    /\ UNCHANGED <<pc, status_label, disconnect_button, timers, threads,
                   hActive, hConfigs, scriptState, confirm, hung, pureIn, pureOut>>

\* an editable combobox: the user can type a name that is not in the list
ComboboxChoices_Editable(interfaces) == Range(interfaces) \cup {<<"c">>}

\* the values selected_vpn_name can take: the combobox is read-only, so an entry of its list
ComboboxChoices(interfaces) == Range(interfaces)

\* the user picks an entry of the combobox
SelectVpn ==
    /\ connect_window.open
    /\ \E x \in ComboboxChoices(connect_window.interfaces) \ {connect_window.selected} :
          /\ connect_window' = [connect_window EXCEPT !.selected = x]
          /\ ev' = Event("select", x, FALSE, <<>>)
    /\ UNCHANGED <<pc, status_label, disconnect_button, timers, threads,
                   hActive, hConfigs, scriptState, confirm, hung, pureIn, pureOut>>

\* the name do_connect hands to the worker thread
ConnectTarget(w) == w.selected

\* do_connect: the Connect button of the selection window
DoConnect ==
    /\ connect_window.open
    /\ LET selected_name == ConnectTarget(connect_window) IN
       IF ~Truthy(selected_name)
       THEN /\ ev' = Event("do_connect", selected_name, FALSE,
                           <<Popup("showwarning", "Selection Required", <<"select an interface">>)>>)
            /\ UNCHANGED <<threads, connect_window, timers>>
       ELSE /\ BagCardinality(threads) < MaxThreads
            /\ timers < MaxTimers
            /\ threads' = threads (+) SetToBag({<<"connect", selected_name>>})
            /\ connect_window' = NoWindow
            /\ timers' = timers + 1
            /\ ev' = Event("do_connect", selected_name, TRUE, <<>>)
    /\ UNCHANGED <<pc, status_label, disconnect_button, hActive, hConfigs, scriptState, confirm, hung, pureIn, pureOut>>

\* the selection window is closed without connecting; wait_window returns
CloseConnectWindow ==
    /\ connect_window.open
    /\ connect_window' = NoWindow
    /\ ev' = Event("close_window", <<>>, FALSE, <<>>)
    /\ UNCHANGED <<pc, status_label, disconnect_button, timers, threads,
                   hActive, hConfigs, scriptState, confirm, hung, pureIn, pureOut>>

\* disconnect_vpn_gui up to askyesno: the Disconnect button
DisconnectClick ==
    /\ pc = "mainloop"
    /\ ~connect_window.open
    /\ ~confirm.open
    /\ disconnect_button = "normal"
    /\ \E r \in SubprocessRun(<<"get_active">>) :
          LET res == get_active_vpn_interface(r)
              active_iface == res.ret
          IN IF ~Truthy(active_iface)
             THEN /\ confirm' = confirm
                  /\ ev' = Event("disconnect_vpn_gui", active_iface, FALSE,
                                 res.popups \o <<Popup("showinfo", "Disconnect VPN", <<"no active VPN">>)>>)
             ELSE /\ confirm' = [open |-> TRUE, active_iface |-> active_iface]
                  /\ ev' = Event("disconnect_vpn_gui", active_iface, FALSE, res.popups)
    /\ UNCHANGED <<pc, status_label, disconnect_button, timers, threads, connect_window,
                   hActive, hConfigs, scriptState, hung, pureIn, pureOut>>

\* disconnect_vpn_gui after askyesno returned True
ConfirmYes ==
    /\ confirm.open
    /\ BagCardinality(threads) < MaxThreads
    /\ timers < MaxTimers
    /\ threads' = threads (+) SetToBag({<<"disconnect", confirm.active_iface>>})
    /\ timers' = timers + 1
    /\ confirm' = NoConfirm
    /\ ev' = Event("askyesno", confirm.active_iface, TRUE, <<>>)
    /\ UNCHANGED <<pc, status_label, disconnect_button, connect_window,
                   hActive, hConfigs, scriptState, hung, pureIn, pureOut>>

\* disconnect_vpn_gui after askyesno returned False
ConfirmNo ==
    /\ confirm.open
    /\ confirm' = NoConfirm
    /\ ev' = Event("askyesno", confirm.active_iface, FALSE, <<>>)
    /\ UNCHANGED <<pc, status_label, disconnect_button, timers, threads, connect_window,
                   hActive, hConfigs, scriptState, hung, pureIn, pureOut>>

\* import_config_gui: the Import button, with the file and the name the dialogs return
ImportClick ==
    /\ pc = "mainloop"
    /\ ~connect_window.open
    /\ ~confirm.open
    /\ \E source_file \in SourceFiles, config_name \in ImportNames :
          IF source_file = <<>>
          THEN /\ ev' = Event("import_config_gui", None, FALSE, <<>>)
               /\ UNCHANGED <<threads, timers>>
          ELSE IF ~Truthy(config_name)
          THEN /\ ev' = Event("import_config_gui", config_name, FALSE,
                              <<Popup("showerror", "Error", <<"name cannot be empty">>)>>)
               /\ UNCHANGED <<threads, timers>>
          ELSE IF ~ImportNameAccepted(config_name)
          THEN /\ ev' = Event("import_config_gui", config_name, FALSE,
                              <<Popup("showerror", "Invalid Name", <<"cannot contain / or ..">>)>>)
               /\ UNCHANGED <<threads, timers>>
          ELSE /\ BagCardinality(threads) < MaxThreads
               /\ timers < MaxTimers
               /\ threads' = threads (+) SetToBag({<<"import", source_file, config_name>>})
               /\ timers' = timers + 1
               /\ ev' = Event("import_config_gui", config_name, TRUE, <<>>)
    /\ UNCHANGED <<pc, status_label, disconnect_button, connect_window,
                   hActive, hConfigs, scriptState, confirm, hung, pureIn, pureOut>>

\* a worker thread's run_bash_command runs the script and returns
ThreadDone ==
    /\ \E command_args \in BagToSet(threads (-) hung) :
          \E r \in SubprocessRun(command_args) :
             LET res == run_bash_command(command_args, TRUE, r)
             IN /\ threads' = threads (-) SetToBag({command_args})
                /\ hActive' = IF r.kind = "returned" THEN r.proc.active ELSE hActive
                /\ hConfigs' = IF r.kind = "returned" THEN r.proc.configs ELSE hConfigs
                /\ ev' = Event(command_args[1], command_args[Len(command_args)],
                               r.kind = "returned", res.popups)
    /\ UNCHANGED <<pc, status_label, disconnect_button, timers, connect_window,
                   scriptState, confirm, hung, pureIn, pureOut>>

\* the script of a running invocation hangs: subprocess.run has no timeout and
\* blocks for as long as the child runs
HelperHang ==
    /\ \E command_args \in BagToSet(threads (-) hung) :
          /\ hung' = hung (+) SetToBag({command_args})
          /\ ev' = Event("hang", command_args[Len(command_args)], FALSE, <<>>)
    /\ UNCHANGED <<pc, status_label, disconnect_button, timers, threads, connect_window,
                   confirm, hActive, hConfigs, scriptState, pureIn, pureOut>>

\* a tunnel is brought up or down outside this program
ExternalChange ==
    /\ pc = "mainloop"
    /\ \E x \in ({<<>>} \cup Range(hConfigs)) \ {hActive} :
          /\ hActive' = x
          /\ ev' = Event("external", x, FALSE, <<>>)
    /\ UNCHANGED <<pc, status_label, disconnect_button, timers, threads, connect_window,
                   hConfigs, scriptState, confirm, hung, pureIn, pureOut>>

\* VPN.sh is removed, made non-executable, or restored
ScriptChange ==
    /\ pc = "mainloop"
    /\ \E x \in {"ok", "missing", "noexec"} \ {scriptState} :
          /\ scriptState' = x
          /\ ev' = Event("script", <<>>, FALSE, <<>>)
    /\ UNCHANGED <<pc, status_label, disconnect_button, timers, threads, connect_window,
                   hActive, hConfigs, confirm, hung, pureIn, pureOut>>

Next ==
    \/ UpdateStatus
    \/ ConnectClick
    \/ SelectVpn
    \/ DoConnect
    \/ CloseConnectWindow
    \/ DisconnectClick
    \/ ConfirmYes
    \/ ConfirmNo
    \/ ImportClick
    \/ ThreadDone
    \/ ExternalChange
    \/ ScriptChange

Spec == Init /\ [][Next]_vars

\* the program with scripts that may hang, under the scheduling Tk and the
\* threads guarantee: a pending timer fires, a script that exits is waited for
NextHang == Next \/ HelperHang

SpecFair ==
    /\ Init
    /\ [][NextHang]_vars
    /\ WF_vars(UpdateStatus)
    /\ WF_vars(ThreadDone)

----------------------------------------------------------------------------
(* The name checks of import_config_gui, applied to every name up to MaxNameLen *)

InitPure ==
    /\ pc = "startup"
    /\ status_label = Checking
    /\ disconnect_button = "disabled"
    /\ timers = 0
    /\ threads = EmptyBag
    /\ connect_window = NoWindow
    /\ confirm = NoConfirm
    /\ hung = EmptyBag
    /\ hConfigs = <<>>
    /\ hActive = <<>>
    /\ scriptState = "ok"
    /\ ev = Event("init", <<>>, FALSE, <<>>)
    /\ pureIn \in SeqsUpTo(MaxNameLen) \cup {None}
    /\ pureOut = "none"

ValidateName ==
    /\ pureOut = "none"
    /\ pureOut' = IF ImportNameAccepted(pureIn) THEN "accepted" ELSE "rejected"
    /\ UNCHANGED <<pc, status_label, disconnect_button, timers, threads, connect_window,
                   hActive, hConfigs, scriptState, confirm, hung, ev, pureIn>>

NextPure == ValidateName

SpecPure == InitPure /\ [][NextPure]_vars

----------------------------------------------------------------------------
(* Properties *)

\* the invocations of the given operation that a step adds to the worker threads
Started(op, before, after) ==
    {t \in BagToSet(after) : t[1] = op /\ CopiesIn(t, after) > CopiesIn(t, before)}

\* a name with a "/" or two adjacent dots in it
HasSlash(n) == \E i \in 1..Len(n) : n[i] = "/"
HasDotDot(n) == \E i \in 1..(Len(n) - 1) : n[i] = "." /\ n[i + 1] = "."

\* the length bound of a TunnelName
TunnelNameMaxLen == 3

\* C1: at most one helper mutation invocation (connect, disconnect or import)
\* is in flight at any instant.
C1_AtMostOneMutation == BagCardinality(threads) <= 1

\* C2: when a connect is requested while a connect for a different name is
\* still in flight, the new one is rejected and does not reach the helper.
C2_SecondConnectRejected ==
    (ev.kind = "do_connect" /\ ev.ok) =>
        ~\E t \in BagToSet(threads) : t[1] = "connect" /\ t[2] # ev.name

\* C3: the displayed session state never changes while a connect, disconnect
\* or import invocation is in flight.
C3_NoReconcileDuringMutation ==
    [][status_label' # status_label => BagCardinality(threads) = 0]_vars

\* C4: while the helper cannot be reached, a displayed state Connected(x) is
\* left untouched (it is not replaced by Disconnected).
C4_UnreachableKeepsState ==
    [][(scriptState # "ok" /\ status_label.kind = "Connected") => status_label' = status_label]_vars

C6_ConnectOnlySnapshotNames ==
    [][/\ \A t \in Started("connect", threads, threads') :
             connect_window.open /\ t[2] \in Range(connect_window.interfaces)
       /\ (~connect_window.open /\ connect_window'.open) =>
             /\ connect_window'.interfaces # <<>>
             /\ scriptState = "ok"
             /\ Range(connect_window'.interfaces) = Range(hConfigs)
             /\ Len(connect_window'.interfaces) = Len(hConfigs)
       /\ (ev'.kind = "connect_vpn_gui" /\ (hConfigs = <<>> \/ scriptState # "ok")) =>
             /\ ~connect_window'.open
             /\ threads' = threads
             /\ timers' = timers
             /\ status_label' = status_label
             /\ disconnect_button' = disconnect_button
      ]_vars

C6_Witness ==
    /\ ev.kind = "do_connect"
    /\ ev.ok
    /\ ev.name = B
    /\ CopiesIn(<<"connect", B>>, threads) = 1

\* C7: a disconnect request made when get_active returns empty or fails is
\* rejected at once: it asks nothing, starts no disconnect invocation and
\* schedules no refresh; every disconnect invocation that is started carries
\* the name of the active tunnel that get_active returned for its request.
C7_DisconnectOnlyActive ==
    [][/\ \A t \in Started("disconnect", threads, threads') :
             confirm.open /\ t[2] = confirm.active_iface
       /\ (~confirm.open /\ confirm'.open) =>
             /\ scriptState = "ok"
             /\ hActive # <<>>
             /\ confirm'.active_iface = hActive
       /\ (ev'.kind = "disconnect_vpn_gui" /\ (hActive = <<>> \/ scriptState # "ok")) =>
             /\ ~confirm'.open
             /\ threads' = threads
             /\ timers' = timers
      ]_vars

C7_Witness ==
    /\ ev.kind = "disconnect_vpn_gui"
    /\ ~Truthy(ev.name)
    /\ ~confirm.open
    /\ hActive = <<>>
    /\ status_label.kind = "Connected"

\* C8: an import request whose name is empty, contains "/" or contains ".."
\* starts no import invocation and schedules no refresh; no import invocation
\* ever carries such a name.
C8_BadImportNeverStarts ==
    [][/\ \A t \in BagToSet(threads') :
             t[1] = "import" => (t[3] # <<>> /\ t[3] # None /\ ~HasSlash(t[3]) /\ ~HasDotDot(t[3]))
       /\ (/\ ev'.kind = "import_config_gui"
           /\ (ev'.name = <<>> \/ HasSlash(ev'.name) \/ HasDotDot(ev'.name))) =>
             /\ ~ev'.ok
             /\ threads' = threads
             /\ timers' = timers
      ]_vars

C8_Witness ==
    /\ ev.kind = "import_config_gui"
    /\ ev.name = <<".", ".", "/", "e", "t", "c">>
    /\ ~ev.ok
    /\ ev.popups # <<>>

C10_CollisionRejected ==
    (ev.kind = "import_config_gui" /\ ev.name \in Range(hConfigs)) => ~ev.ok

\* the names the active tunnel can take in the model, <<>> for none
TunnelChoices == {<<>>, A, B}

\* the displayed state that matches a ground truth
Matching(x) == IF x = <<>> THEN Disconnected ELSE Connected(x)

\* C11: every started helper invocation eventually returns, also when the
\* script hangs (the executor ends it at the timeout).
C11_EveryInvocationReturns ==
    (BagCardinality(threads) > 0) ~> (BagCardinality(threads) = 0)

\* C17: if from some point on the helper stays reachable and the active
\* tunnel stays fixed at x, then from some point on the displayed state is
\* the one that matches x.
C17_ReconcileCorrects ==
    \A x \in TunnelChoices :
        <>[](scriptState = "ok" /\ hActive = x) => <>[](status_label = Matching(x))

C17_Witness ==
    /\ ev.kind = "external"
    /\ scriptState = "ok"
    /\ hActive = <<>>
    /\ status_label.kind = "Connected"
    /\ timers > 1

----------------------------------------------------------------------------
(* run_bash_command applied to every outcome of subprocess.run, with stdout *)
(* and stderr up to MaxOutLen                                                *)

OutAlphabet == {"a", " ", "\n"}

RunKinds == {"returned", "CalledProcessError", "FileNotFoundError", "Exception"}

Operations == {"list_interfaces", "get_active", "connect", "disconnect", "import"}

NotRun == [done |-> FALSE, ret |-> None, popups |-> <<>>]

\* the outcome of subprocess.run that an input of the pure specifications stands for
RunOf(in) ==
    [kind |-> in.kind,
     proc |-> [code |-> IF in.kind = "returned" THEN 0 ELSE 1,
               stdout |-> in.stdout, stderr |-> in.stderr,
               active |-> <<>>, configs |-> <<>>]]

InitRun ==
    /\ pc = "startup"
    /\ status_label = Checking
    /\ disconnect_button = "disabled"
    /\ timers = 0
    /\ threads = EmptyBag
    /\ connect_window = NoWindow
    /\ confirm = NoConfirm
    /\ hung = EmptyBag
    /\ hConfigs = <<>>
    /\ hActive = <<>>
    /\ scriptState = "ok"
    /\ ev = Event("init", <<>>, FALSE, <<>>)
    /\ pureIn \in [kind : RunKinds, stdout : SeqsOver(OutAlphabet, MaxOutLen),
                   stderr : SeqsOver(OutAlphabet, MaxOutLen),
                   op : Operations, show : BOOLEAN]
    /\ pureOut = NotRun

ClassifyRun ==
    /\ ~pureOut.done
    /\ LET res == run_bash_command(<<pureIn.op>>, pureIn.show, RunOf(pureIn))
       IN pureOut' = [done |-> TRUE, ret |-> res.ret, popups |-> res.popups]
    /\ UNCHANGED <<pc, status_label, disconnect_button, timers, threads, connect_window,
                   confirm, hung, hActive, hConfigs, scriptState, ev, pureIn>>

NextRun == ClassifyRun

SpecRun == InitRun /\ [][NextRun]_vars

----------------------------------------------------------------------------
(* get_vpn_interface_names applied to every list_interfaces output up to    *)
(* MaxListLen                                                                *)

ListAlphabet == {"a", "b", ".", "/", " ", "\n"}

InitList ==
    /\ pc = "startup"
    /\ status_label = Checking
    /\ disconnect_button = "disabled"
    /\ timers = 0
    /\ threads = EmptyBag
    /\ connect_window = NoWindow
    /\ confirm = NoConfirm
    /\ hung = EmptyBag
    /\ hConfigs = <<>>
    /\ hActive = <<>>
    /\ scriptState = "ok"
    /\ ev = Event("init", <<>>, FALSE, <<>>)
    /\ pureIn \in [kind : {"returned", "CalledProcessError", "FileNotFoundError"},
                   stdout : SeqsOver(ListAlphabet, MaxListLen),
                   stderr : {<<>>}, op : {"list_interfaces"}, show : {FALSE}]
    /\ pureOut = NotRun

ListNames ==
    /\ ~pureOut.done
    /\ LET res == get_vpn_interface_names(RunOf(pureIn))
       IN pureOut' = [done |-> TRUE, ret |-> res.ret, popups |-> res.popups]
    /\ UNCHANGED <<pc, status_label, disconnect_button, timers, threads, connect_window,
                   confirm, hung, hActive, hConfigs, scriptState, ev, pureIn>>

NextList == ListNames

SpecList == InitList /\ [][NextList]_vars

\* the fair scheduling of the timers alone
SpecLive == Init /\ [][Next]_vars /\ WF_vars(UpdateStatus)

----------------------------------------------------------------------------
(* Properties of run_bash_command and get_vpn_interface_names *)

\* t is s without its leading and trailing whitespace
TrimmedOf(t, s) ==
    \E i \in 0..Len(s) : \E j \in i..Len(s) :
        /\ t = SubSeq(s, i + 1, j)
        /\ \A k \in 1..i : s[k] \in Whitespace
        /\ \A k \in (j + 1)..Len(s) : s[k] \in Whitespace
        /\ t = <<>> \/ (t[1] \notin Whitespace /\ t[Len(t)] \notin Whitespace)

\* s holds whitespace only
Blank(s) == \A k \in 1..Len(s) : s[k] \in Whitespace

\* the number of error popups among the popups of a step
Errors(popups) == Cardinality({i \in DOMAIN popups : popups[i].kind = "showerror"})

\* C12: on exit code 0 run_bash_command returns the trimmed stdout; on a
\* non-zero exit it returns None and reports the trimmed stderr, or the
\* trimmed stdout exactly when the trimmed stderr is empty; a missing script
\* returns None and is reported under a title and text of its own.
C12_Classification ==
    pureOut.done =>
        /\ pureIn.kind = "returned" => (pureOut.ret # None /\ TrimmedOf(pureOut.ret, pureIn.stdout))
        /\ pureIn.kind = "CalledProcessError" =>
              /\ pureOut.ret = None
              /\ Len(pureOut.popups) = 1
              /\ pureOut.popups[1].kind = "showerror"
              /\ pureOut.popups[1].title = "Operation Failed"
              /\ TrimmedOf(pureOut.popups[1].text,
                           IF Blank(pureIn.stderr) THEN pureIn.stdout ELSE pureIn.stderr)
        /\ pureIn.kind = "FileNotFoundError" =>
              /\ pureOut.ret = None
              /\ Len(pureOut.popups) = 1
              /\ pureOut.popups[1].kind = "showerror"
              /\ pureOut.popups[1].title = "Error"
              /\ pureOut.popups[1].text = <<"Script not found">>

C12_Witness ==
    /\ pureOut.done
    /\ pureIn.kind = "CalledProcessError"
    /\ pureIn.stderr = <<"\n">>
    /\ pureIn.stdout = <<"a", "\n">>
    /\ pureOut.popups[1].text = <<"a">>

\* C13: every helper invocation that fails shows exactly one error popup and a
\* successful one shows none, whether it is issued by update_status,
\* connect_vpn_gui, disconnect_vpn_gui or a connect, disconnect or import
\* thread.
C13_OneErrorPerFailure ==
    [][/\ ev'.kind \in {"update_status", "connect_vpn_gui", "disconnect_vpn_gui"} =>
             Errors(ev'.popups) = (IF scriptState = "ok" THEN 0 ELSE 1)
       /\ ev'.kind \in {"connect", "disconnect", "import"} =>
             /\ Errors(ev'.popups) = (IF ev'.ok THEN 0 ELSE 1)
             /\ scriptState # "ok" => ~ev'.ok
      ]_vars

C13_Witness ==
    /\ ev.kind = "import"
    /\ ~ev.ok
    /\ scriptState = "noexec"
    /\ Errors(ev.popups) = 1

\* the positions that bound the lines of s: before it, after it, and its newlines
LineBounds(s) == {0, Len(s) + 1} \cup {i \in 1..Len(s) : s[i] = "\n"}

\* the lines of s, each as the pair of the bounds around it
LineSpans(s) ==
    {sp \in LineBounds(s) \X LineBounds(s) :
        sp[1] < sp[2] /\ ~\E m \in LineBounds(s) : sp[1] < m /\ m < sp[2]}

\* the line of s between two bounds, without its leading and trailing whitespace
TrimmedLine(s, sp) ==
    LET line == SubSeq(s, sp[1] + 1, sp[2] - 1)
    IN CHOOSE t \in {SubSeq(line, i, j) : i \in 1..(Len(line) + 1), j \in 0..Len(line)} :
          TrimmedOf(t, line)

\* s <= t in the order of the code points
LexLeq(s, t) ==
    \E k \in 0..Len(s) :
        /\ k <= Len(t)
        /\ \A i \in 1..k : s[i] = t[i]
        /\ k = Len(s) \/ (k < Len(t) /\ Ord(s[k + 1]) < Ord(t[k + 1]))

\* how often a name occurs in a list, and among the trimmed lines of an output
Occurrences(l, n) == Cardinality({i \in DOMAIN l : l[i] = n})
LinesEqual(s, n) == Cardinality({sp \in LineSpans(s) : TrimmedLine(s, sp) = n})

\* a name that is a valid TunnelName
ValidTunnelName(n) == n # <<>> /\ ~HasSlash(n) /\ ~HasDotDot(n)

ListedNames(s) == {TrimmedLine(s, sp) : sp \in LineSpans(s)}

----------------------------------------------------------------------------
(* Properties of the session state and the timers *)

\* C15: an import leaves the session state unchanged: when the displayed
\* state matches the active tunnel and the active tunnel does not change, the
\* refresh that follows a started import shows the state shown before it.
C15_ImportKeepsState ==
    [][(/\ ev.kind = "import_config_gui"
        /\ ev.ok
        /\ status_label = Matching(hActive)
        /\ hActive' = hActive
        /\ ev'.kind = "update_status") => status_label' = status_label]_vars

\* C16: only update_status writes the displayed state, and whenever it leaves
\* Connected(x) displayed, its get_active call returned x, the active tunnel.
C16_ConnectedMeansReconciled ==
    [][/\ (status_label' # status_label \/ disconnect_button' # disconnect_button) =>
             ev'.kind = "update_status"
       /\ (ev'.kind = "update_status" /\ status_label'.kind = "Connected") =>
             /\ scriptState = "ok"
             /\ hActive # <<>>
             /\ status_label'.iface = hActive
             /\ ev'.name = hActive
      ]_vars

C16_Witness ==
    /\ ev.kind = "update_status"
    /\ ev.name = B
    /\ status_label = Connected(B)
    /\ BagCardinality(threads) > 0

\* C18: a failed connect or disconnect leaves the session state at its value
\* before the operation, also after the refresh the operation scheduled: the
\* refresh after a failed disconnect of x, with Connected(x) displayed and x
\* still active, keeps Connected(x); the refresh after a failed connect, with
\* Disconnected displayed and no tunnel active, keeps Disconnected.
C18_FailureKeepsState ==
    [][(/\ ev.kind \in {"connect", "disconnect"}
        /\ ~ev.ok
        /\ status_label = Matching(hActive)
        /\ (ev.kind = "disconnect" => hActive = ev.name)
        /\ (ev.kind = "connect" => hActive = <<>>)
        /\ hActive' = hActive
        /\ ev'.kind = "update_status") => status_label' = status_label]_vars

C20_ButtonIffConnected ==
    /\ disconnect_button = "normal" <=> status_label.kind = "Connected"
    /\ status_label.kind \in {"Checking", "Disconnected"} => disconnect_button = "disabled"
    /\ status_label.kind = "Checking" <=> pc = "startup"

C20_Witness ==
    /\ ev.kind = "update_status"
    /\ status_label = Disconnected
    /\ disconnect_button = "disabled"
    /\ hConfigs = <<B, A>>
    /\ timers > 1

====
